---- MODULE Spec2Model ----
(***************************************************************************)
(* PIA (Packed Integer Array), src/src/lib.rs.                             *)
(*                                                                         *)
(* A PackedIntegerArray<BITS, LEN> packs LEN items of BITS bits each into  *)
(* get_array_length(BITS, LEN) bytes.  The model keeps the byte storage as *)
(* a function 0 .. n-1 -> 0 .. 255 and computes get, set and clear with    *)
(* the shifts, xors and ors of the source on 8-bit values.                 *)
(***************************************************************************)
EXTENDS Integers, Sequences, FiniteSets, TLC

\* ------------------------------------------------------------------ bounds
\* Largest LEN of a container whose calls are chosen freely.
MaxLen == 3
\* Largest BITS * LEN of a container that is given every u8 as a value; a
\* larger one is given the values of BoundaryValues.
MaxTotalBits == 9
\* Out-of-bounds indices tried are LEN .. LEN + MaxOver - 1.
MaxOver == 1
\* Calls of next() tried after the iterator is exhausted.
MaxExtraNext == 2
\* Largest size get_array_length is called with on its own.
MaxSize == 12

\* ------------------------------------------------------- program constants
\* u8::BITS
U8_BITS == 8
\* u8::MAX, the largest `value: u8` a caller can pass
U8_MAX == 255
\* Option::None of Iterator::next, and "no value returned" in general
None == 0 - 1
\* the value standing for a call that ended in panic!()
Panic == 0 - 2

\* -------------------------------------------------------- u8 arithmetic
PowTable == [n \in 0 .. (2 * U8_BITS) |-> 2 ^ n]

Pow2(n) == PowTable[n]

\* bit k (0 = least significant) of the byte x
BitAt(x, k) == (x \div Pow2(k)) % 2

\* x << n on u8: the bits shifted past bit 7 are lost
Shl(x, n) == (x * Pow2(n)) % Pow2(U8_BITS)

\* x >> n on u8
Shr(x, n) == x \div Pow2(n)

Bytes == 0 .. U8_MAX

XorTable ==
    [a \in Bytes |-> [b \in Bytes |->
          ((BitAt(a, 0) + BitAt(b, 0)) % 2)
        + ((BitAt(a, 1) + BitAt(b, 1)) % 2) * 2
        + ((BitAt(a, 2) + BitAt(b, 2)) % 2) * 4
        + ((BitAt(a, 3) + BitAt(b, 3)) % 2) * 8
        + ((BitAt(a, 4) + BitAt(b, 4)) % 2) * 16
        + ((BitAt(a, 5) + BitAt(b, 5)) % 2) * 32
        + ((BitAt(a, 6) + BitAt(b, 6)) % 2) * 64
        + ((BitAt(a, 7) + BitAt(b, 7)) % 2) * 128]]

\* a ^ b on u8
BitXor(a, b) == XorTable[a][b]

Or1(p, q) == IF p + q > 0 THEN 1 ELSE 0

OrTable ==
    [a \in Bytes |-> [b \in Bytes |->
          Or1(BitAt(a, 0), BitAt(b, 0))
        + Or1(BitAt(a, 1), BitAt(b, 1)) * 2
        + Or1(BitAt(a, 2), BitAt(b, 2)) * 4
        + Or1(BitAt(a, 3), BitAt(b, 3)) * 8
        + Or1(BitAt(a, 4), BitAt(b, 4)) * 16
        + Or1(BitAt(a, 5), BitAt(b, 5)) * 32
        + Or1(BitAt(a, 6), BitAt(b, 6)) * 64
        + Or1(BitAt(a, 7), BitAt(b, 7)) * 128]]

\* a | b on u8
BitOr(a, b) == OrTable[a][b]

\* ------------------------------------------------------------------ state
VARIABLES
    BITS,       \* const generic BITS: bits per item
    LEN,        \* const generic LEN: number of items
    content,    \* PackedIntegerArray.content, a function 0 .. n-1 -> u8
    pc,         \* where the caller is: "ready" to call, "returned" from a call,
                \* "panicked", "consumed" (after unpack) or "iterating"
    op,         \* the call made last
    index,      \* its index argument; PackedIntegerArrayIterator.index
    value,      \* its value argument; bits, for get_array_length
    other,      \* the plain array it was compared with
    rhs,        \* the content of the packed array it was compared with
    before,     \* content as the call found it
    warned,     \* the call emitted warn!()
    result,     \* the u8 or usize it returned (None: nothing, Panic: panic)
    equal,      \* the bool it returned
    items,      \* the array unpack returned; the items next() has yielded
    nexts,      \* calls of next() made on the iterator
    test,       \* the doc test being run (0: calls are chosen freely)
    step        \* the next statement of that doc test

vars == <<BITS, LEN, content, pc, op, index, value, other, rhs, before,
          warned, result, equal, items, nexts, test, step>>

\* ------------------------------------------------------------ the program
\* get_array_length rounding down: the partly used last byte is missing
get_array_length_RoundsDown(bits, size) == (bits * size) \div U8_BITS

get_array_length(bits, size) == ((bits * size) + U8_BITS - 1) \div U8_BITS

start_byte(i) == (i * BITS) \div U8_BITS

start_bit(i) == (i * BITS) - (start_byte(i) * U8_BITS)

\* the test `start_bit + BITS > u8::BITS` of get, set and clear
Spans(i) == start_bit(i) + BITS > U8_BITS

\* the test `index >= LEN` of get, set and clear
OutOfBounds(i) == i >= LEN

\* Default::default()
default == [b \in 0 .. get_array_length(BITS, LEN) - 1 |-> 0]

\* get(&self, index), for content c
get(c, i) ==
    IF OutOfBounds(i) THEN Panic
    ELSE LET first == Shr(Shl(c[start_byte(i)], start_bit(i)), U8_BITS - BITS)
         IN  IF Spans(i)
             THEN BitOr(first, Shr(c[start_byte(i) + 1],
                                   (U8_BITS * 2) - (start_bit(i) + BITS)))
             ELSE first

\* the clear block without its line for the second byte
ClearContent_FirstByteOnly(c, i) ==
    LET sb == start_byte(i)
        st == start_bit(i)
    IN  IF Spans(i)
        THEN [c EXCEPT ![sb] = BitXor(@, Shr(Shl(@, st), st))]
        ELSE [c EXCEPT ![sb] =
                 BitXor(@, Shl(Shr(Shl(@, st), U8_BITS - BITS),
                               U8_BITS - BITS - st))]

\* the "Clear the current content" block shared by set and clear
ClearContent(c, i) ==
    LET sb == start_byte(i)
        st == start_bit(i)
    IN  IF Spans(i)
        THEN LET k  == (U8_BITS * 2) - (st + BITS)
                 c1 == [c EXCEPT ![sb] = BitXor(@, Shr(Shl(@, st), st))]
             IN  [c1 EXCEPT ![sb + 1] = BitXor(@, Shl(Shr(@, k), k))]
        ELSE [c EXCEPT ![sb] =
                 BitXor(@, Shl(Shr(Shl(@, st), U8_BITS - BITS),
                               U8_BITS - BITS - st))]

\* the write block without its `if` for the second byte
WriteContent_FirstByteOnly(c, i, v) ==
    LET sb == start_byte(i)
        st == start_bit(i)
    IN  [c EXCEPT ![sb] = BitOr(@, Shr(Shl(v, U8_BITS - BITS), st))]

\* the write block placing value by one shift, which keeps the bits of value
\* past BITS
WriteContent_NoTruncation(c, i, v) ==
    LET sb == start_byte(i)
        st == start_bit(i)
        c1 == [c EXCEPT ![sb] =
                  BitOr(@, IF Spans(i)
                           THEN Shr(v, st + BITS - U8_BITS)
                           ELSE Shl(v, U8_BITS - BITS - st))]
    IN  IF Spans(i)
        THEN [c1 EXCEPT ![sb + 1] = BitOr(@, Shl(v, (U8_BITS * 2) - BITS - st))]
        ELSE c1

\* the write block shifting the second byte as it shifts the first
WriteContent_SecondByteShift(c, i, v) ==
    LET sb == start_byte(i)
        st == start_bit(i)
        c1 == [c EXCEPT ![sb] = BitOr(@, Shr(Shl(v, U8_BITS - BITS), st))]
    IN  IF Spans(i)
        THEN [c1 EXCEPT ![sb + 1] = BitOr(@, Shl(v, U8_BITS - BITS))]
        ELSE c1

\* the "Write the content" block of set
WriteContent(c, i, v) ==
    LET sb == start_byte(i)
        st == start_bit(i)
        c1 == [c EXCEPT ![sb] = BitOr(@, Shr(Shl(v, U8_BITS - BITS), st))]
    IN  IF Spans(i)
        THEN [c1 EXCEPT ![sb + 1] = BitOr(@, Shl(v, (U8_BITS * 2) - BITS - st))]
        ELSE c1

\* the test of set with > for >=
TooBig_Strict(v) == v > Pow2(BITS)

\* the `value as usize >= max` test of set
TooBig(v) == v >= Pow2(BITS)

\* what set and clear leave in content when index is in bounds
set(c, i, v) == WriteContent(ClearContent(c, i), i, v)

clear(c, i) == ClearContent(c, i)

\* unpack(self): items starts as [0; LEN], then items[i] = self.get(i)
RECURSIVE UnpackLoop(_, _, _)
UnpackLoop(c, i, its) ==
    IF i >= LEN THEN its
    ELSE UnpackLoop(c, i + 1, [its EXCEPT ![i + 1] = get(c, i)])

\* unpack with its loop started at 1
unpack_SkipsFirst(c) == UnpackLoop(c, 1, [k \in 1 .. LEN |-> 0])

unpack(c) == UnpackLoop(c, 0, [k \in 1 .. LEN |-> 0])

\* PartialEq<[u8; LEN]>::eq: false at the first i with other[i] != self.get(i)
RECURSIVE EqLoop(_, _, _)
EqLoop(c, o, i) ==
    IF i >= LEN THEN TRUE
    ELSE IF o[i + 1] # get(c, i) THEN FALSE
    ELSE EqLoop(c, o, i + 1)

\* eq with its loop started at 1
eq_SkipsFirst(c, o) == EqLoop(c, o, 1)

eq(c, o) == EqLoop(c, o, 0)

\* PartialEq<PackedIntegerArray>::eq
eq_packed(c, d) == c = d

\* a packed array made by new() and set(i, its[i]) for each i in turn
RECURSIVE SetLoop(_, _, _)
SetLoop(c, its, i) ==
    IF i >= LEN THEN c ELSE SetLoop(set(c, i, its[i + 1]), its, i + 1)

FromItems(its) == SetLoop(default, its, 0)

\* ------------------------------------------------------------ the callers
\* the (BITS, LEN) of the containers whose calls are chosen freely
Configs == (1 .. U8_BITS) \X (0 .. MaxLen)

\* index: usize
Indices == 0 .. LEN + MaxOver - 1

\* value: u8
Values == 0 .. U8_MAX

\* the values at the edges of BITS bits: 0, 1, the top bit alone, all ones,
\* and the smallest and the largest values set truncates
BoundaryValues ==
    {0, 1, 2 ^ (BITS - 1), 2 ^ BITS - 1, 2 ^ BITS, 2 ^ BITS + 1, U8_MAX}

\* the u8s a caller passes: all of them to a small container
InputValues ==
    IF BITS * LEN <= MaxTotalBits THEN Values ELSE Values \cap BoundaryValues

\* other: &[u8; LEN].  The arrays tried: the unpacked items, the unpacked items
\* with one entry replaced by an input value of at most BITS + 1 bits, and
\* every array of 0s and 255s.
OtherArrays(c) ==
    LET u == unpack(c)
    IN  {u} \cup {[u EXCEPT ![k] = v] :
                     k \in 1 .. LEN, v \in {w \in InputValues : w < Pow2(BITS + 1)}}
            \cup [1 .. LEN -> {0, U8_MAX}]

\* other: &PackedIntegerArray<BITS, LEN>.  The arrays tried hold the items of
\* this one, or those with one item replaced by a BITS-bit input value.
OtherPacked(c) ==
    LET u == unpack(c)
    IN  {FromItems(u)}
        \cup {FromItems([u EXCEPT ![k] = v]) :
                 k \in 1 .. LEN, v \in {w \in InputValues : w < Pow2(BITS)}}

Call(o, i, v) == [op |-> o, index |-> i, value |-> v]

\* The doc tests of lib.rs on PackedIntegerArray::<3, 9>: the statements after
\* new(), each an operation with its arguments.
DocTests ==
    << \* unpack (lines 201-204)
       << Call("set", 2, 4), Call("set", 4, 5), Call("unpack", None, None) >>,
       \* PartialEq<[u8; LEN]>::eq (lines 273-275)
       << Call("set", 2, 3), Call("eq", None, <<0, 0, 3, 0, 0, 0, 0, 0, 0>>) >>,
       \* set, truncation (lines 124-132)
       << Call("set", 2, 1), Call("set", 4, 9),
          Call("get", 2, None), Call("get", 4, None) >>,
       \* clear (lines 168-175)
       << Call("set", 3, 7), Call("clear", 3, None), Call("get", 3, None) >> >>

DocBits == 3

DocLen == 9

\* ---------------------------------------------------------------- actions
\* PackedIntegerArray::<BITS, LEN>::new()
Init ==
    /\ \/ /\ test = 0
          /\ \E cfg \in Configs : BITS = cfg[1] /\ LEN = cfg[2]
       \/ /\ test \in 1 .. Len(DocTests)
          /\ BITS = DocBits
          /\ LEN = DocLen
    /\ step = 1
    /\ content = default
    /\ pc = "ready"
    /\ op = "new"
    /\ index = None
    /\ value = None
    /\ other = << >>
    /\ rhs = << >>
    /\ before = << >>
    /\ warned = FALSE
    /\ result = None
    /\ equal = FALSE
    /\ items = << >>
    /\ nexts = 0

\* get_array_length(bits, size), called before the container is used
ArrayLength(bits, size) ==
    /\ pc = "ready"
    /\ op = "new"
    /\ pc' = "returned"
    /\ op' = "get_array_length"
    /\ index' = size
    /\ value' = bits
    /\ result' = get_array_length(bits, size)
    /\ before' = content
    /\ UNCHANGED <<BITS, LEN, content, other, rhs, warned, equal, items, nexts>>

\* get(index)
Get(i) ==
    /\ pc = "ready"
    /\ op' = "get"
    /\ index' = i
    /\ value' = None
    /\ before' = content
    /\ result' = get(content, i)
    /\ pc' = IF OutOfBounds(i) THEN "panicked" ELSE "returned"
    /\ UNCHANGED <<BITS, LEN, content, other, rhs, warned, equal, items, nexts>>

\* set(index, value): the warning comes before the bounds check
Set(i, v) ==
    /\ pc = "ready"
    /\ op' = "set"
    /\ index' = i
    /\ value' = v
    /\ before' = content
    /\ warned' = TooBig(v)
    /\ IF OutOfBounds(i)
       THEN /\ pc' = "panicked"
            /\ result' = Panic
            /\ UNCHANGED content
       ELSE /\ pc' = "returned"
            /\ result' = None
            /\ content' = set(content, i, v)
    /\ UNCHANGED <<BITS, LEN, other, rhs, equal, items, nexts>>

\* clear without its bounds check, an index out of bounds being ignored
Clear_NoPanic(i) ==
    /\ pc = "ready"
    /\ op' = "clear"
    /\ index' = i
    /\ value' = None
    /\ before' = content
    /\ pc' = "returned"
    /\ result' = None
    /\ content' = IF OutOfBounds(i) THEN content ELSE clear(content, i)
    /\ UNCHANGED <<BITS, LEN, other, rhs, warned, equal, items, nexts>>

\* clear(index)
Clear(i) ==
    /\ pc = "ready"
    /\ op' = "clear"
    /\ index' = i
    /\ value' = None
    /\ before' = content
    /\ IF OutOfBounds(i)
       THEN /\ pc' = "panicked"
            /\ result' = Panic
            /\ UNCHANGED content
       ELSE /\ pc' = "returned"
            /\ result' = None
            /\ content' = clear(content, i)
    /\ UNCHANGED <<BITS, LEN, other, rhs, warned, equal, items, nexts>>

\* unpack(self): the container is consumed
Unpack ==
    /\ pc = "ready"
    /\ pc' = "consumed"
    /\ op' = "unpack"
    /\ before' = content
    /\ items' = unpack(content)
    /\ UNCHANGED <<BITS, LEN, content, index, value, other, rhs, warned,
                   result, equal, nexts>>

\* self == other, other a plain array
Eq(o) ==
    /\ pc = "ready"
    /\ pc' = "returned"
    /\ op' = "eq"
    /\ other' = o
    /\ before' = content
    /\ equal' = eq(content, o)
    /\ UNCHANGED <<BITS, LEN, content, index, value, rhs, warned, result,
                   items, nexts>>

\* self == other, other a packed array with content d
EqPacked(d) ==
    /\ pc = "ready"
    /\ pc' = "returned"
    /\ op' = "eq_packed"
    /\ rhs' = d
    /\ before' = content
    /\ equal' = eq_packed(content, d)
    /\ UNCHANGED <<BITS, LEN, content, index, value, other, warned, result,
                   items, nexts>>

\* into_iter(self): the container moves into the iterator
IntoIter ==
    /\ pc = "ready"
    /\ pc' = "iterating"
    /\ op' = "into_iter"
    /\ index' = 0
    /\ before' = content
    /\ UNCHANGED <<BITS, LEN, content, value, other, rhs, warned, result,
                   equal, items, nexts>>

\* next with <= for < in its test of index
IterNext_OffByOne ==
    /\ pc = "iterating"
    /\ nexts < LEN + MaxExtraNext
    /\ op' = "next"
    /\ nexts' = nexts + 1
    /\ IF index <= LEN
       THEN /\ result' = get(content, index)
            /\ index' = index + 1
            /\ items' = Append(items, get(content, index))
       ELSE /\ result' = None
            /\ UNCHANGED <<index, items>>
    /\ UNCHANGED <<BITS, LEN, content, pc, value, other, rhs, before, warned,
                   equal>>

\* PackedIntegerArrayIterator::next()
IterNext ==
    /\ pc = "iterating"
    /\ nexts < LEN + MaxExtraNext
    /\ op' = "next"
    /\ nexts' = nexts + 1
    /\ IF index < LEN
       THEN /\ result' = get(content, index)
            /\ index' = index + 1
            /\ items' = Append(items, get(content, index))
       ELSE /\ result' = None
            /\ UNCHANGED <<index, items>>
    /\ UNCHANGED <<BITS, LEN, content, pc, value, other, rhs, before, warned,
                   equal>>

\* the caller is done with what the call returned and goes on
Continue ==
    /\ pc = "returned"
    /\ pc' = "ready"
    /\ op' = "none"
    /\ index' = None
    /\ value' = None
    /\ other' = << >>
    /\ rhs' = << >>
    /\ before' = << >>
    /\ warned' = FALSE
    /\ result' = None
    /\ equal' = FALSE
    /\ UNCHANGED <<BITS, LEN, content, items, nexts, test, step>>

\* the next statement of the doc test
DocStep ==
    /\ test > 0
    /\ step <= Len(DocTests[test])
    /\ LET s == DocTests[test][step]
       IN  CASE s.op = "set"    -> Set(s.index, s.value)
             [] s.op = "get"    -> Get(s.index)
             [] s.op = "clear"  -> Clear(s.index)
             [] s.op = "unpack" -> Unpack
             [] s.op = "eq"     -> Eq(s.value)
    /\ step' = step + 1
    /\ UNCHANGED test

\* a call chosen freely: no doc test is running
Free(A) == test = 0 /\ A /\ UNCHANGED <<test, step>>

Ready == test = 0 /\ pc = "ready"

Next ==
    \/ /\ Ready
       /\ \E bits \in 1 .. U8_BITS, size \in 0 .. MaxSize :
              Free(ArrayLength(bits, size))
    \/ Ready /\ \E i \in Indices : Free(Get(i))
    \/ Ready /\ \E i \in Indices, v \in InputValues : Free(Set(i, v))
    \/ Ready /\ \E i \in Indices : Free(Clear(i))
    \/ Free(Unpack)
    \/ Ready /\ \E o \in OtherArrays(content) : Free(Eq(o))
    \/ Ready /\ \E d \in OtherPacked(content) : Free(EqPacked(d))
    \/ Free(IntoIter)
    \/ Free(IterNext)
    \/ Continue
    \/ DocStep

Spec == Init /\ [][Next]_vars

\* ------------------------------------------------------------- the claims
\* the items of a container
Items == 0 .. LEN - 1

\* value mod 2^BITS
Truncated(v) == v % (2 ^ BITS)

\* the smallest n with 8 * n >= bits * size
CeilBytes(bits, size) ==
    CHOOSE n \in 0 .. bits * size :
        /\ U8_BITS * n >= bits * size
        /\ U8_BITS * (n - 1) < bits * size

\* Bit p of the storage c read as one bit string: byte 0 first, the most
\* significant bit of a byte first.
StorageBit(c, p) == BitAt(c[p \div 8], 7 - (p % 8))

\* The bits of the storage c at offsets i * BITS .. i * BITS + BITS - 1 are
\* the BITS-bit big-endian number v, and v has no higher bits.
HoldsItem(c, i, v) ==
    /\ v < Pow2(BITS)
    /\ \A k \in 0 .. BITS - 1 :
           StorageBit(c, i * BITS + k) = BitAt(v, BITS - 1 - k)

\* the call made last was set (clear, get) with an index in bounds
DidSet == op = "set" /\ index < LEN

DidClear == op = "clear" /\ index < LEN

\* C1: after set(index, value) with index < LEN, in any container reached
\* from new() by set and clear calls, get(index) returns value mod 2^BITS,
\* which is value itself when value < 2^BITS; the truncation doc test reads
\* the same item from set(2, 1) and set(4, 9).
C1_SetThenGet ==
    /\ DidSet =>
          /\ get(content, index) = Truncated(value)
          /\ value < 2 ^ BITS => get(content, index) = value
    /\ (test = 3 /\ op = "get" /\ index = 4) =>
          result = 1 /\ result = get(content, 2)

\* C1 witness: a value of more than BITS bits was set over an item that spans
\* two bytes and held another value.
C1_Witness ==
    /\ DidSet
    /\ pc = "returned"
    /\ Spans(index)
    /\ value >= 2 ^ BITS
    /\ get(before, index) # 0
    /\ get(content, index) # 0
    /\ get(before, index) # get(content, index)

\* C2: set(i, value), for any value in 0 .. 255, leaves get(j) as it was for
\* every j # i, also when item i or item j spans two bytes.
C2_SetNonInterference ==
    DidSet => \A j \in Items : j # index => get(content, j) = get(before, j)

\* C2 witness: an item that spans two bytes was given a value of more than
\* BITS bits, between two neighbours that hold bits and share its bytes.
C2_Witness ==
    /\ DidSet
    /\ pc = "returned"
    /\ Spans(index)
    /\ value >= 2 ^ BITS
    /\ index >= 1
    /\ index + 1 < LEN
    /\ get(content, index - 1) # 0
    /\ get(content, index + 1) # 0
    /\ get(content, index) # get(before, index)

\* C3: after clear(index) with index < LEN, get(index) is 0 whatever the item
\* held, get(j) is as it was for every j # index, and a second clear(index)
\* leaves the storage as it is; the clear doc test then reads 0.
C3_Clear ==
    /\ DidClear =>
          /\ get(content, index) = 0
          /\ \A j \in Items : j # index => get(content, j) = get(before, j)
          /\ clear(content, index) = content
    /\ (DidClear /\ get(before, index) = 0) => content = before
    /\ (test = 4 /\ op = "get") => result = 0

\* C3 witness: an item that spans two bytes and held a value was cleared,
\* between two neighbours that hold bits.
C3_Witness ==
    /\ DidClear
    /\ pc = "returned"
    /\ Spans(index)
    /\ get(before, index) = 2 ^ BITS - 1
    /\ index >= 1
    /\ index + 1 < LEN
    /\ get(content, index - 1) # 0
    /\ get(content, index + 1) # 0

\* C4: get, set and clear with index >= LEN end in the panic, never in a
\* return, and leave the storage as the call found it.
C4_OutOfBounds ==
    (op \in {"get", "set", "clear"} /\ index >= LEN) =>
        /\ pc = "panicked"
        /\ result = Panic
        /\ content = before

\* C4 witness: clear panicked on a container that holds bits.
C4_Witness ==
    /\ pc = "panicked"
    /\ op = "clear"
    /\ index >= LEN
    /\ LEN > 0
    /\ content # default

\* C5: set(index, value) with index < LEN warns exactly when value >= 2^BITS,
\* and then still returns, with the truncated value written; with BITS = 8 no
\* value warns.
C5_TruncationWarning ==
    DidSet =>
        /\ warned <=> value >= 2 ^ BITS
        /\ pc = "returned"
        /\ result = None
        /\ get(content, index) = Truncated(value)
        /\ BITS = U8_BITS => ~warned

\* C5 witness: a set warned, returned and changed the item.
C5_Witness ==
    /\ DidSet
    /\ warned
    /\ pc = "returned"
    /\ value = 2 ^ BITS + 1
    /\ get(before, index) # 1
    /\ get(content, index) = 1

\* the (BITS, LEN) -> length pairs the documentation gives
SizeExamples ==
    /\ get_array_length(3, 4) = 2
    /\ get_array_length(3, 9) = 4
    /\ get_array_length(8, 1) = 1
    /\ get_array_length(1, 8) = 1
    /\ get_array_length(5, 4) = 3

\* C6: the storage has ceil(BITS * LEN / 8) bytes in every state, which is
\* what get_array_length computes.
C6_StorageLength ==
    /\ DOMAIN content = 0 .. CeilBytes(BITS, LEN) - 1
    /\ op = "get_array_length" => result = CeilBytes(value, index)
    /\ SizeExamples

\* C6 witness: set has changed a container whose last byte is partly unused.
C6_Witness ==
    /\ DidSet
    /\ content # before
    /\ (BITS * LEN) % U8_BITS # 0
    /\ BITS * LEN > U8_BITS

\* C7: unpack returns LEN values, the i-th being get(i); all zeros for a
\* fresh container, and [0,0,4,0,5,0,0,0,0] in the unpack doc test.
C7_Unpack ==
    /\ op = "unpack" =>
          /\ Len(items) = LEN
          /\ \A i \in Items : items[i + 1] = get(content, i)
          /\ content = before
    /\ (op = "unpack" /\ content = default) => items = [k \in 1 .. LEN |-> 0]
    /\ (op = "unpack" /\ test = 1) => items = <<0, 0, 4, 0, 5, 0, 0, 0, 0>>

\* C7 witness: the unpack doc test has unpacked.
C7_Witness ==
    /\ op = "unpack"
    /\ test = 1
    /\ pc = "consumed"
    /\ items[3] = 4
    /\ items[5] = 5

\* C8: a container equals a plain array exactly when other[i] = get(i) for
\* every i, so never when the array has an entry >= 2^BITS.
C8_EqArray ==
    /\ op = "eq" =>
          /\ equal <=> \A i \in Items : other[i + 1] = get(content, i)
          /\ (\E i \in Items : other[i + 1] >= 2 ^ BITS) => ~equal
    /\ (op = "eq" /\ test = 2) => equal

\* C8 witness: the array differs from the items only by an entry that set
\* would truncate to the item it is compared with.
C8_Witness ==
    /\ op = "eq"
    /\ ~equal
    /\ content # default
    /\ \E i \in Items :
          /\ other[i + 1] >= 2 ^ BITS
          /\ Truncated(other[i + 1]) = get(content, i)
          /\ set(content, i, other[i + 1]) = content
          /\ \A j \in Items : j # i => other[j + 1] = get(content, j)

\* C9: the iterator yields get(0), ..., get(LEN - 1) of its container in
\* order, then None on every further call, and its index never exceeds LEN.
C9_Iterator ==
    pc = "iterating" =>
        /\ content = before
        /\ index <= LEN
        /\ index = (IF nexts < LEN THEN nexts ELSE LEN)
        /\ Len(items) = index
        /\ \A k \in 1 .. Len(items) : items[k] = get(before, k - 1)
        /\ (op = "next" /\ nexts <= LEN) => result = get(before, nexts - 1)
        /\ (op = "next" /\ nexts > LEN) => result = None

\* C9 witness: the iterator was called twice after it had yielded its items.
C9_Witness ==
    /\ pc = "iterating"
    /\ LEN >= 3
    /\ nexts = LEN + 2
    /\ result = None
    /\ items[1] # 0
    /\ items[2] # items[1]
    /\ items[3] # items[2]

\* the unused bits after the last item are 0
TrailingZero(c) ==
    \A p \in BITS * LEN .. U8_BITS * get_array_length(BITS, LEN) - 1 :
        StorageBit(c, p) = 0

\* C10: whenever no call is under way (before the first call, and once the
\* caller has gone on from a call) the storage holds get(i), for every item i,
\* as a BITS-bit big-endian number at bit offsets i * BITS .. i * BITS + BITS - 1;
\* in every state the bits after the last item are 0; set leaves value mod
\* 2^BITS at the offsets of its item; and two containers have the same bytes
\* exactly when their items agree.
C10_CanonicalLayout ==
    /\ pc # "returned" => \A i \in Items : HoldsItem(content, i, get(content, i))
    /\ TrailingZero(content)
    /\ DidSet => HoldsItem(content, index, Truncated(value))
    /\ op = "eq_packed" =>
          /\ TrailingZero(rhs)
          /\ equal <=> \A i \in Items : get(content, i) = get(rhs, i)

\* C10 witness: two containers with unused trailing bits and the same items,
\* one of them spanning two bytes, compared equal.
C10_Witness ==
    /\ op = "eq_packed"
    /\ equal
    /\ (BITS * LEN) % U8_BITS # 0
    /\ \E i \in Items : Spans(i) /\ get(content, i) = 2 ^ BITS - 2

====
